---- MODULE Spec2Model ----
(***************************************************************************)
(* State-machine model of the sshsyrup SSH honeypot core (src/ssh.go):     *)
(* the accept loop with per-IP admission, the worker pool, the password    *)
(* callback, the session-level channel-open loop, the per-channel request  *)
(* dispatcher and the interactive shell.                                   *)
(***************************************************************************)
EXTENDS Integers, Sequences, FiniteSets, TLC

(***************************************************************************)
(* Bounds of the model.                                                    *)
(***************************************************************************)
\* number of sockets the listener hands out in one run
MaxConns == 3
\* largest configured server.maxConnPerHost
MaxPerHost == 2
\* largest configured server.maxTries
MaxTries == 3
\* number of channels the peer opens in one session
MaxChans == 2
\* number of channel requests the peer sends in one session
MaxReqs == 2

\* source addresses
IPs == {"ip1", "ip2"}
\* the worker goroutines started by ListenAndServe (server.maxConnections)
Workers == {"w1", "w2"}
Conns == 1..MaxConns
Chans == 1..MaxChans

\* the user database behind os.IsUserExist, and the submitted credentials
Users == {"root", "guest", "nobody"}
Passwords == {"toor", "*"}

VARIABLES
    cfg,          \* the viper configuration, fixed at start-up
    crashed,      \* an unrecovered panic has ended the process
    ipConnCnt,    \* ipConnCnt: source IP -> live connection count
    underflow,    \* DecCount was called on a count of zero
    lpc,          \* position of the accept loop of ListenAndServe
    lconn,        \* nConn: the connection the accept loop holds
    lcnt,         \* cnt: the count the accept loop read
    nconns,       \* number of sockets accepted so far
    sockets,      \* number of sockets the peers will still open
    preCnt,       \* connection -> the count its admission test read
    cip,          \* connection -> source IP
    cstate,       \* connection -> life-cycle state
    decs,         \* connection -> number of DecCount calls made for it
    hs,           \* connection -> handshake outcome
    wpc,          \* worker -> position in CreateSessionHandler
    wconn,        \* worker -> conn it serves
    wcb,          \* worker -> closure its negotiation uses as PasswordCallback
    authFailures, \* worker -> failed attempts of the running negotiation
    tlRead,       \* worker -> value of triesLeft loaded by the callback
    attempts,     \* worker -> password attempts of the running negotiation
    dattempts,    \* worker -> attempts of it that entered the deception branch
    last,         \* worker -> the last password attempt and its outcome
    cfgCb,        \* sshConfig.PasswordCallback: a closure id, 0 = nil
    triesLeft,    \* closure id -> its captured triesLeft
    cbUsers,      \* closure id -> number of negotiations that took it
    spc,          \* position of handleNewConn, the session's channel-open loop
    connClosed,   \* the session's transport has closed
    sshChan,      \* s.sshChan: the channel-open events not yet taken
    nchans,       \* number of channels the peer has opened
    opens,        \* number of channels the peer will still open
    chType,       \* channel -> the channel-open event (type, payload, port)
    answers,      \* channel -> the Accept and Reject calls made on it, in order
    dials,        \* channel -> number of net.Dial calls made for it
    fwdpc,        \* channel -> position of its relay goroutine
    sys,          \* s.sys: index into systems, 0 = nil
    systems,      \* the os.System values created by os.NewSystem, in order
    dpc,          \* channel -> position of its dispatcher goroutine
    inClosed,     \* channel -> its request stream has ended
    quitSignal,   \* channel -> content of its quitSignal (capacity 1)
    sh,           \* channel -> the dispatcher's sh: index into tasks, 0 = nil
    dn,           \* channel -> the exit code n the dispatcher is sending
    reqlog,       \* channel -> the requests taken and their replies
    nreqs,        \* number of channel requests taken in the session
    exit,         \* channel -> the exit-status payloads sent, in order
    quitWrites,   \* channel -> number of values written to its quitSignal
    tasks         \* the leaf services started: Shell, sftp and scp goroutines

connVars == <<ipConnCnt, underflow, lpc, lconn, lcnt, nconns, sockets, preCnt, cip, cstate, decs, hs>>
workVars == <<wpc, wconn>>
authVars == <<wcb, authFailures, tlRead, attempts, dattempts, last, cfgCb, triesLeft, cbUsers>>
sessVars == <<spc, connClosed, sshChan, nchans, opens, chType, answers, dials, fwdpc, sys, systems>>
chanVars == <<dpc, inClosed, quitSignal, sh, dn, reqlog, nreqs, exit, quitWrites, tasks>>
vars == <<cfg, crashed, connVars, workVars, authVars, sessVars, chanVars>>

NoConn == 0
NoOpen == [kind |-> "none", corrupt |-> FALSE, port |-> 0]
NoAttempt == [kind |-> "none", branch |-> "none", res |-> "none", n |-> 0, d |-> 0, tl |-> 0]

(***************************************************************************)
(* netconn.IPConnCount (package net of the repository).                    *)
(***************************************************************************)
Read(cnt, ip) == cnt[ip]

IncCount(cnt, ip) == [cnt EXCEPT ![ip] = @ + 1]

DecCount(cnt, ip) == [cnt EXCEPT ![ip] = IF @ > 0 THEN @ - 1 ELSE 0]

(***************************************************************************)
(* os.IsUserExist: the stored credential of a user and whether it exists.  *)
(***************************************************************************)
UserExists(u) == u \in {"root", "guest"}

StoredPass(u) == IF u = "root" THEN "toor" ELSE IF u = "guest" THEN "*" ELSE ""

(***************************************************************************)
(* ListenAndServe: the accept loop.                                        *)
(***************************************************************************)
\* listener.Accept() returns a socket
Accept ==
    /\ ~crashed /\ lpc = "accept" /\ sockets > 0
    /\ \E ip \in IPs :
          /\ nconns' = nconns + 1
          /\ sockets' = sockets - 1
          /\ lconn' = nconns + 1
          /\ cip' = [cip EXCEPT ![nconns + 1] = ip]
          /\ cstate' = [cstate EXCEPT ![nconns + 1] = "accepted"]
    /\ lpc' = "read"
    /\ UNCHANGED <<cfg, crashed, ipConnCnt, underflow, lcnt, preCnt, decs, hs, workVars, authVars, sessVars, chanVars>>

\* listener.Accept() fails: nConn is nil and nConn.RemoteAddr() panics
AcceptError ==
    /\ ~crashed /\ lpc = "accept" /\ sockets > 0
    /\ crashed' = TRUE
    /\ UNCHANGED <<cfg, connVars, workVars, authVars, sessVars, chanVars>>

\* cnt := ipConnCnt.Read(host)
ReadCount ==
    /\ ~crashed /\ lpc = "read"
    /\ lcnt' = Read(ipConnCnt, cip[lconn])
    /\ preCnt' = [preCnt EXCEPT ![lconn] = Read(ipConnCnt, cip[lconn])]
    /\ lpc' = "check"
    /\ UNCHANGED <<cfg, crashed, ipConnCnt, underflow, lconn, nconns, sockets, cip, cstate, decs, hs, workVars, authVars, sessVars, chanVars>>

AtLimitLE(cnt) == cnt > cfg.maxConnPerHost

\* cnt >= viper.GetInt("server.maxConnPerHost")
AtLimit(cnt) == cnt >= cfg.maxConnPerHost

\* the admission test: close and continue, or IncCount
Admit ==
    /\ ~crashed /\ lpc = "check"
    /\ IF AtLimit(lcnt)
          THEN /\ cstate' = [cstate EXCEPT ![lconn] = "refused"]
               /\ lpc' = "accept"
               /\ lconn' = NoConn
               /\ UNCHANGED ipConnCnt
          ELSE /\ ipConnCnt' = IncCount(ipConnCnt, cip[lconn])
               /\ cstate' = [cstate EXCEPT ![lconn] = "admitted"]
               /\ lpc' = "send"
               /\ UNCHANGED lconn
    /\ UNCHANGED <<cfg, crashed, underflow, lcnt, nconns, sockets, preCnt, cip, decs, hs, workVars, authVars, sessVars, chanVars>>

\* connChan <- tConn meets a worker's "for conn := range c" (unbuffered channel)
Handoff(w) ==
    /\ ~crashed /\ lpc = "send" /\ wpc[w] = "recv"
    /\ wconn' = [wconn EXCEPT ![w] = lconn]
    /\ wpc' = [wpc EXCEPT ![w] = "setcb"]
    /\ cstate' = [cstate EXCEPT ![lconn] = "handling"]
    /\ lpc' = "accept"
    /\ lconn' = NoConn
    /\ UNCHANGED <<cfg, crashed, ipConnCnt, underflow, lcnt, nconns, sockets, preCnt, cip, decs, hs, authVars, sessVars, chanVars>>

(***************************************************************************)
(* PasswordChallenge: the decision of one call of the callback, given the  *)
(* declared user, the submitted password and the closure's triesLeft.      *)
(* "decrement" is the path through triesLeft-- to the rejection.           *)
(***************************************************************************)
PwMatch(u, p) == UserExists(u) /\ StoredPass(u) = p

Deception(u, p) ==
    \/ UserExists(u) /\ (StoredPass(u) # p \/ StoredPass(u) = "*")
    \/ cfg.allowRandomUser

PwOutcomeZero(u, p, tl) ==
    IF PwMatch(u, p) THEN "accept"
    ELSE IF Deception(u, p)
         THEN IF cfg.allowRetryLogin
                 THEN IF tl = 0 THEN "accept" ELSE "decrement"
                 ELSE "accept"
         ELSE "reject"

PwOutcomeNoMatch(u, p, tl) ==
    IF Deception(u, p) \/ PwMatch(u, p)
       THEN IF cfg.allowRetryLogin
               THEN IF tl = 1 THEN "accept" ELSE "decrement"
               ELSE "accept"
       ELSE "reject"

PwOutcomeRetryAlways(u, p, tl) ==
    IF PwMatch(u, p) THEN "accept"
    ELSE IF Deception(u, p)
         THEN IF tl = 1 THEN "accept" ELSE "decrement"
         ELSE "reject"

\* lines 417-432: exact match, then the deception branch, then the rejection
PwOutcome(u, p, tl) ==
    IF PwMatch(u, p) THEN "accept"
    ELSE IF Deception(u, p)
         THEN IF cfg.allowRetryLogin
                 THEN IF tl = 1 THEN "accept" ELSE "decrement"
                 ELSE "accept"
         ELSE "reject"

\* what the attempt is to the user database: the stored credential of a known
\* user, another password for a known user, or an unknown user
PwKind(u, p) ==
    IF ~UserExists(u) THEN "unknown" ELSE IF StoredPass(u) = p THEN "match" ELSE "mismatch"

PwBranch(u, p) ==
    IF PwMatch(u, p) THEN "match" ELSE IF Deception(u, p) THEN "deception" ELSE "reject"

(***************************************************************************)
(* CreateSessionHandler: one worker of the pool, and the handshake that    *)
(* NewSSHSession runs through ssh.NewServerConn.                           *)
(***************************************************************************)
\* sshConfig.PasswordCallback = PasswordChallenge(viper.GetInt("server.maxTries"))
SetCallback(w) ==
    /\ ~crashed /\ wpc[w] = "setcb"
    /\ triesLeft' = Append(triesLeft, cfg.maxTries)
    /\ cbUsers' = Append(cbUsers, 0)
    /\ cfgCb' = Len(triesLeft) + 1
    /\ wpc' = [wpc EXCEPT ![w] = "newconn"]
    /\ UNCHANGED <<cfg, crashed, connVars, wconn, wcb, authFailures, tlRead, attempts, dattempts, last, sessVars, chanVars>>

\* ssh.NewServerConn(nConn, sshConfig) takes the callback the shared config holds now
NewServerConn(w) ==
    /\ ~crashed /\ wpc[w] = "newconn"
    /\ wcb' = [wcb EXCEPT ![w] = cfgCb]
    /\ cbUsers' = [cbUsers EXCEPT ![cfgCb] = @ + 1]
    /\ authFailures' = [authFailures EXCEPT ![w] = 0]
    /\ attempts' = [attempts EXCEPT ![w] = 0]
    /\ dattempts' = [dattempts EXCEPT ![w] = 0]
    /\ last' = [last EXCEPT ![w] = NoAttempt]
    /\ wpc' = [wpc EXCEPT ![w] = "auth"]
    /\ UNCHANGED <<cfg, crashed, connVars, wconn, tlRead, cfgCb, triesLeft, sessVars, chanVars>>

\* the handshake after a rejected attempt: MaxAuthTries failures end it with an error
Rejected(w) ==
    /\ authFailures' = [authFailures EXCEPT ![w] = @ + 1]
    /\ IF authFailures[w] + 1 >= cfg.maxTries
          THEN /\ hs' = [hs EXCEPT ![wconn[w]] = "err"]
               /\ wpc' = [wpc EXCEPT ![w] = "dec"]
          ELSE /\ wpc' = [wpc EXCEPT ![w] = "auth"]
               /\ UNCHANGED hs

\* one call of the callback, up to its return or to triesLeft--
PasswordChallenge(w) ==
    /\ ~crashed /\ wpc[w] = "auth"
    /\ \E u \in Users, p \in Passwords :
          LET tl == triesLeft[wcb[w]]
              out == PwOutcome(u, p, tl)
              br == PwBranch(u, p)
              d == IF br = "deception" THEN dattempts[w] + 1 ELSE dattempts[w]
              rec == [kind |-> PwKind(u, p), branch |-> br, res |-> out,
                      n |-> attempts[w] + 1, d |-> d, tl |-> tl]
          IN  /\ attempts' = [attempts EXCEPT ![w] = @ + 1]
              /\ dattempts' = [dattempts EXCEPT ![w] = d]
              /\ CASE out = "accept" ->
                        /\ last' = [last EXCEPT ![w] = rec]
                        /\ hs' = [hs EXCEPT ![wconn[w]] = "ok"]
                        /\ wpc' = [wpc EXCEPT ![w] = "serve"]
                        /\ UNCHANGED <<authFailures, tlRead>>
                   [] out = "decrement" ->
                        /\ last' = [last EXCEPT ![w] = [rec EXCEPT !.res = "pending"]]
                        /\ tlRead' = [tlRead EXCEPT ![w] = tl]
                        /\ wpc' = [wpc EXCEPT ![w] = "pwdec"]
                        /\ UNCHANGED <<authFailures, hs>>
                   [] OTHER ->
                        /\ last' = [last EXCEPT ![w] = rec]
                        /\ Rejected(w)
                        /\ UNCHANGED tlRead
    /\ UNCHANGED <<cfg, crashed, ipConnCnt, underflow, lpc, lconn, lcnt, nconns, sockets, preCnt, cip, cstate, decs,
                   wconn, wcb, cfgCb, triesLeft, cbUsers, sessVars, chanVars>>

\* triesLeft-- (a load and a store on the captured variable), the sleep and the rejection
PwDecrement(w) ==
    /\ ~crashed /\ wpc[w] = "pwdec"
    /\ \E v \in {tlRead[w], triesLeft[wcb[w]]} :
          triesLeft' = [triesLeft EXCEPT ![wcb[w]] = v - 1]
    /\ last' = [last EXCEPT ![w].res = "reject"]
    /\ Rejected(w)
    /\ UNCHANGED <<cfg, crashed, ipConnCnt, underflow, lpc, lconn, lcnt, nconns, sockets, preCnt, cip, cstate, decs,
                   wconn, wcb, tlRead, attempts, dattempts, cfgCb, cbUsers, sessVars, chanVars>>

\* the peer drops the socket during the handshake: NewServerConn returns an error
HandshakeAbort(w) ==
    /\ ~crashed /\ wpc[w] = "auth"
    /\ hs' = [hs EXCEPT ![wconn[w]] = "err"]
    /\ wpc' = [wpc EXCEPT ![w] = "dec"]
    /\ UNCHANGED <<cfg, crashed, ipConnCnt, underflow, lpc, lconn, lcnt, nconns, sockets, preCnt, cip, cstate, decs,
                   wconn, authVars, sessVars, chanVars>>

\* NewSSHSession seen from the worker: the handshake succeeds or returns an error
NewSSHSessionReturns(w) ==
    /\ ~crashed /\ wpc[w] = "setcb"
    /\ \E r \in {"ok", "err"} :
          /\ hs' = [hs EXCEPT ![wconn[w]] = r]
          /\ wpc' = [wpc EXCEPT ![w] = IF r = "ok" THEN "serve" ELSE "dec"]
    /\ UNCHANGED <<cfg, crashed, ipConnCnt, underflow, lpc, lconn, lcnt, nconns, sockets, preCnt, cip, cstate, decs,
                   wconn, authVars, sessVars, chanVars>>

\* sshSession.handleNewConn() seen from the worker: it returns when the
\* channel-open stream ends, or a panic in it ends the process
HandleNewConnReturns(w) ==
    /\ ~crashed /\ wpc[w] = "serve"
    /\ \/ wpc' = [wpc EXCEPT ![w] = "dec"] /\ UNCHANGED crashed
       \/ crashed' = TRUE /\ UNCHANGED wpc
    /\ UNCHANGED <<cfg, connVars, wconn, authVars, sessVars, chanVars>>

ReleaseSkipOnError(w) ==
    /\ ~crashed /\ wpc[w] = "dec"
    /\ IF hs[wconn[w]] = "err"
          THEN UNCHANGED <<ipConnCnt, underflow, decs>>
          ELSE /\ ipConnCnt' = DecCount(ipConnCnt, cip[wconn[w]])
               /\ underflow' = (underflow \/ ipConnCnt[cip[wconn[w]]] = 0)
               /\ decs' = [decs EXCEPT ![wconn[w]] = @ + 1]
    /\ cstate' = [cstate EXCEPT ![wconn[w]] = "released"]
    /\ wpc' = [wpc EXCEPT ![w] = "recv"]
    /\ wconn' = [wconn EXCEPT ![w] = NoConn]
    /\ wcb' = [wcb EXCEPT ![w] = 0]
    /\ authFailures' = [authFailures EXCEPT ![w] = 0]
    /\ tlRead' = [tlRead EXCEPT ![w] = 0]
    /\ attempts' = [attempts EXCEPT ![w] = 0]
    /\ dattempts' = [dattempts EXCEPT ![w] = 0]
    /\ last' = [last EXCEPT ![w] = NoAttempt]
    /\ UNCHANGED <<cfg, crashed, lpc, lconn, lcnt, nconns, sockets, preCnt, cip, hs, cfgCb, triesLeft, cbUsers, sessVars, chanVars>>

\* ipConnCnt.DecCount(clientIP) at the end of the loop body, on both paths
Release(w) ==
    /\ ~crashed /\ wpc[w] = "dec"
    /\ ipConnCnt' = DecCount(ipConnCnt, cip[wconn[w]])
    /\ underflow' = (underflow \/ ipConnCnt[cip[wconn[w]]] = 0)
    /\ decs' = [decs EXCEPT ![wconn[w]] = @ + 1]
    /\ cstate' = [cstate EXCEPT ![wconn[w]] = "released"]
    /\ wpc' = [wpc EXCEPT ![w] = "recv"]
    /\ wconn' = [wconn EXCEPT ![w] = NoConn]
    /\ wcb' = [wcb EXCEPT ![w] = 0]
    /\ authFailures' = [authFailures EXCEPT ![w] = 0]
    /\ tlRead' = [tlRead EXCEPT ![w] = 0]
    /\ attempts' = [attempts EXCEPT ![w] = 0]
    /\ dattempts' = [dattempts EXCEPT ![w] = 0]
    /\ last' = [last EXCEPT ![w] = NoAttempt]
    /\ UNCHANGED <<cfg, crashed, lpc, lconn, lcnt, nconns, sockets, preCnt, cip, hs, cfgCb, triesLeft, cbUsers, sessVars, chanVars>>

(***************************************************************************)
(* The peer of the session: channel-opens and the end of the transport.    *)
(***************************************************************************)
\* the ports that server.portRedirectionMap maps to a host
PortMap == {22}

\* the channel-open events a peer sends for port forwarding and unknown types
FwdOpens ==
    [kind : {"direct-tcpip", "forwarded-tcpip"}, corrupt : {FALSE}, port : {22, 8080}]
       \cup [kind : {"direct-tcpip", "forwarded-tcpip"}, corrupt : {TRUE}, port : {0}]
       \cup {[kind |-> "x11", corrupt |-> FALSE, port |-> 0]}

SessionOpen == [kind |-> "session", corrupt |-> FALSE, port |-> 0]

\* the peer opens a channel: the event is queued on s.sshChan
ClientOpen(o) ==
    /\ ~crashed /\ spc = "range" /\ ~connClosed /\ opens > 0
    /\ nchans' = nchans + 1
    /\ opens' = opens - 1
    /\ chType' = [chType EXCEPT ![nchans + 1] = o]
    /\ sshChan' = Append(sshChan, nchans + 1)
    /\ UNCHANGED <<cfg, crashed, connVars, workVars, authVars, spc, connClosed, answers, dials, fwdpc, sys, systems, chanVars>>

\* the transport ends (the peer disconnects or the idle timeout of the
\* throttled connection fires): the channel-open stream and every request
\* stream end
TransportClose ==
    /\ ~crashed /\ spc = "range" /\ ~connClosed
    /\ connClosed' = TRUE
    /\ inClosed' = [ch \in Chans |-> TRUE]
    /\ UNCHANGED <<cfg, crashed, connVars, workVars, authVars, spc, sshChan, nchans, opens, chType, answers, dials, fwdpc, sys,
                   systems, dpc, quitSignal, sh, dn, reqlog, nreqs, exit, quitWrites, tasks>>

(***************************************************************************)
(* handleNewConn: the session-level loop over the channel-open events.     *)
(***************************************************************************)
\* sshSession.handleNewConn() is entered after a successful handshake
BeginSession(w) ==
    /\ ~crashed /\ wpc[w] = "serve" /\ spc = "none"
    /\ wpc' = [wpc EXCEPT ![w] = "session"]
    /\ spc' = "range"
    /\ UNCHANGED <<cfg, crashed, connVars, wconn, authVars, connClosed, sshChan, nchans, opens, chType, answers, dials, fwdpc,
                   sys, systems, chanVars>>

\* "for newChannel := range s.sshChan" ends when the closed stream is drained
EndSession(w) ==
    /\ ~crashed /\ wpc[w] = "session" /\ spc = "range"
    /\ connClosed /\ sshChan = <<>>
    /\ wpc' = [wpc EXCEPT ![w] = "dec"]
    /\ spc' = "ended"
    /\ UNCHANGED <<cfg, crashed, connVars, wconn, authVars, connClosed, sshChan, nchans, opens, chType, answers, dials, fwdpc,
                   sys, systems, chanVars>>

\* the corrupt-payload branch: Reject, and the code goes on
CorruptCalls(o) == IF o.corrupt THEN <<"reject:corrupt">> ELSE <<>>

\* host as the port-redirection policy computes it: "panic" stands for the
\* failed type assertion on a port that the map does not hold
FwdHost(o) ==
    CASE cfg.portRedirection = "map" -> IF o.port \in PortMap THEN "mapped" ELSE "panic"
      [] cfg.portRedirection = "direct" -> "direct"
      [] OTHER -> ""

\* one iteration of the loop body for a direct-tcpip or forwarded-tcpip event
\* ch: the calls made on newChannel, whether the body panics, whether the
\* relay goroutine is started
FwdBody(o, acceptOk) ==
    IF o.kind = "forwarded-tcpip"
       THEN [calls |-> CorruptCalls(o) \o <<"reject:prohibited">>, panic |-> FALSE, relay |-> FALSE]
    ELSE IF cfg.portRedirection = "disable"
       THEN [calls |-> CorruptCalls(o) \o <<"reject:prohibited">>, panic |-> FALSE, relay |-> FALSE]
    ELSE IF FwdHost(o) = "panic"
       THEN [calls |-> CorruptCalls(o), panic |-> TRUE, relay |-> FALSE]
    ELSE IF FwdHost(o) # ""
       THEN [calls |-> CorruptCalls(o) \o
                          (IF acceptOk THEN <<"accept">> ELSE <<"accept:err", "reject:resource">>),
             panic |-> FALSE, relay |-> TRUE]
    ELSE [calls |-> CorruptCalls(o) \o <<"reject:malformed">>, panic |-> FALSE, relay |-> FALSE]

\* the loop takes the next channel-open event and runs the body of its case
HandleChannelOpen ==
    /\ ~crashed /\ spc = "range" /\ sshChan # <<>>
    /\ LET ch == Head(sshChan)
           o == chType[ch]
           b == FwdBody(o, ~connClosed /\ ~o.corrupt)
       IN  /\ sshChan' = Tail(sshChan)
           /\ CASE o.kind = "session" ->
                     /\ dpc' = [dpc EXCEPT ![ch] = "accept"]
                     /\ UNCHANGED <<answers, fwdpc, crashed>>
                [] o.kind \in {"direct-tcpip", "forwarded-tcpip"} ->
                     /\ answers' = [answers EXCEPT ![ch] = @ \o b.calls]
                     /\ crashed' = b.panic
                     /\ fwdpc' = [fwdpc EXCEPT ![ch] = IF b.panic THEN "panic"
                                                       ELSE IF b.relay THEN "dial" ELSE "handled"]
                     /\ UNCHANGED dpc
                [] OTHER ->
                     /\ answers' = [answers EXCEPT ![ch] = @ \o <<"reject:unknown">>]
                     /\ fwdpc' = [fwdpc EXCEPT ![ch] = "handled"]
                     /\ UNCHANGED <<dpc, crashed>>
    /\ UNCHANGED <<cfg, connVars, workVars, authVars, spc, connClosed, nchans, opens, chType, dials, sys, systems,
                   inClosed, quitSignal, sh, dn, reqlog, nreqs, exit, quitWrites, tasks>>

\* the relay goroutine: net.Dial, and Reject when it fails
Dial(ch) ==
    /\ ~crashed /\ fwdpc[ch] = "dial"
    /\ dials' = [dials EXCEPT ![ch] = @ + 1]
    /\ \E ok \in BOOLEAN :
          IF ok THEN /\ fwdpc' = [fwdpc EXCEPT ![ch] = "relay"]
                     /\ UNCHANGED answers
                ELSE /\ fwdpc' = [fwdpc EXCEPT ![ch] = "handled"]
                     /\ answers' = [answers EXCEPT ![ch] = @ \o <<"reject:connfailed">>]
    /\ UNCHANGED <<cfg, crashed, connVars, workVars, authVars, spc, connClosed, sshChan, nchans, opens, chType, sys, systems,
                   chanVars>>

(***************************************************************************)
(* handleNewSession: the dispatcher goroutine of one session channel.      *)
(***************************************************************************)
\* the channel requests a peer sends: type and shape of the payload
Requests ==
    {"putty", "pty-req", "pty-req:bad", "env", "env:bad", "shell",
     "subsystem:sftp", "subsystem:other", "subsystem:short",
     "window-change", "window-change:bad",
     "exec:ls", "exec:frob", "exec:scp", "exec:short", "other"}

\* the terminal sizes: of the pty-req, of the window-change, of the default
PtySize == [w |-> 132, h |-> 43]
WinSize == [w |-> 100, h |-> 30]
DefaultSize == [w |-> 80, h |-> 24]
ZeroSize == [w |-> 0, h |-> 0]

\* os.NewSystem(user, hostname, fs, channel, width, height, log): a context
\* of that size, in the root directory, with no environment variable set
NewSystem(size) == [w |-> size.w, h |-> size.h, cwd |-> "/", env |-> {}]

\* sh.sys.Width = width; sh.sys.Height = height
Resize(sy, size) == [sy EXCEPT !.w = size.w, !.h = size.h]

\* envVars[name] = value on a mapping held as a set of <<name, value>>
SetEnv(env, name, value) == {p \in env : p[1] # name} \cup {<<name, value>>}

\* sys.Exec(args[0], args[1:]): the exit code of a registered command, or -1
\* and an error for a name the command table does not hold
ExecCode(r) == IF r = "exec:ls" THEN 0 ELSE -1

\* a leaf service: its goroutine's position, the code it reports, the context
\* it is bound to, and the line or read result that ended its loop
\* out is the message its last line made it write to the terminal, writes
\* the number of codes it has written to the quitSignal
NewTask(k, ch, pc0, sy) ==
    [kind |-> k, ch |-> ch, pc |-> pc0, code |-> 0, sys |-> sy, last |-> "", out |-> "", writes |-> 0]

Log(ch, r, reply) == reqlog' = [reqlog EXCEPT ![ch] = Append(@, [req |-> r, reply |-> reply])]

\* newChan.Accept(), then "go func(in, channel)"
DispatcherAccept(ch) ==
    /\ ~crashed /\ dpc[ch] = "accept"
    /\ IF connClosed
          THEN /\ dpc' = [dpc EXCEPT ![ch] = "failed"]
               /\ answers' = [answers EXCEPT ![ch] = Append(@, "accept:err")]
          ELSE /\ dpc' = [dpc EXCEPT ![ch] = "select"]
               /\ answers' = [answers EXCEPT ![ch] = Append(@, "accept")]
    /\ UNCHANGED <<cfg, crashed, connVars, workVars, authVars, spc, connClosed, sshChan, nchans, opens, chType, dials, fwdpc,
                   sys, systems, inClosed, quitSignal, sh, dn, reqlog, nreqs, exit, quitWrites, tasks>>

\* the peer closes the channel: its request stream ends
ClientCloseChannel(ch) ==
    /\ ~crashed /\ dpc[ch] \in {"select", "send"} /\ ~inClosed[ch]
    /\ inClosed' = [inClosed EXCEPT ![ch] = TRUE]
    /\ UNCHANGED <<cfg, crashed, connVars, workVars, authVars, sessVars, dpc, quitSignal, sh, dn, reqlog, nreqs, exit,
                   quitWrites, tasks>>

\* case "shell": the context if absent, os.NewShell, go sh.HandleRequest, Reply(true)
ShellRequest(ch, r) ==
    /\ IF sys = 0
          THEN /\ systems' = Append(systems, NewSystem(DefaultSize))
               /\ sys' = Len(systems) + 1
          ELSE UNCHANGED <<sys, systems>>
    /\ tasks' = Append(tasks, NewTask("shell", ch, "start", sys'))
    /\ sh' = [sh EXCEPT ![ch] = Len(tasks) + 1]
    /\ Log(ch, r, "ok")
    /\ UNCHANGED <<crashed, dpc, dn>>

\* case "pty-req": Unmarshal, os.NewSystem sized to the request, Reply
PtyRequest(ch, r) ==
    /\ IF r = "pty-req"
          THEN /\ systems' = Append(systems, NewSystem(PtySize))
               /\ sys' = Len(systems) + 1
               /\ Log(ch, r, "ok")
          ELSE /\ Log(ch, r, "fail")
               /\ UNCHANGED <<sys, systems>>
    /\ UNCHANGED <<crashed, dpc, dn, sh, tasks>>

\* case "env": Unmarshal, log, Reply
EnvRequest(ch, r) ==
    /\ Log(ch, r, IF r = "env" THEN "ok" ELSE "fail")
    /\ UNCHANGED <<crashed, dpc, dn, sh, tasks, sys, systems>>

\* case "subsystem": req.Payload[4:], sftp or Reply(false)
SubsystemRequest(ch, r) ==
    /\ CASE r = "subsystem:short" ->
              /\ crashed' = TRUE
              /\ Log(ch, r, "none")
              /\ UNCHANGED tasks
         [] r = "subsystem:sftp" ->
              /\ tasks' = Append(tasks, NewTask("sftp", ch, "run", 0))
              /\ Log(ch, r, "ok")
              /\ UNCHANGED crashed
         [] OTHER ->
              /\ Log(ch, r, "fail")
              /\ UNCHANGED <<crashed, tasks>>
    /\ UNCHANGED <<dpc, dn, sh, sys, systems>>

\* case "window-change": only with sh != nil; Reply(false) on a payload that
\* does not parse, and sh.SetSize in both cases; sh.terminal is nil until
\* HandleRequest has set it, and SetSize then panics after storing the size
WindowChangeRequest(ch, r) ==
    /\ IF sh[ch] = 0
          THEN /\ Log(ch, r, "none")
               /\ UNCHANGED <<crashed, systems>>
          ELSE /\ Log(ch, r, IF r = "window-change" THEN "none" ELSE "fail")
               /\ systems' = [systems EXCEPT ![tasks[sh[ch]].sys] =
                                 Resize(@, IF r = "window-change" THEN WinSize ELSE ZeroSize)]
               /\ crashed' = (tasks[sh[ch]].pc = "start")
    /\ UNCHANGED <<dpc, dn, sh, tasks, sys>>

\* case "exec": req.Payload[4:], a context for this request if s.sys is nil,
\* scp as a goroutine, any other command run in the dispatcher
ExecRequest(ch, r) ==
    /\ CASE r = "exec:short" ->
              /\ crashed' = TRUE
              /\ Log(ch, r, "none")
              /\ UNCHANGED <<tasks, systems, dpc, dn>>
         [] r = "exec:scp" ->
              /\ systems' = IF sys = 0 THEN Append(systems, NewSystem(DefaultSize)) ELSE systems
              /\ tasks' = Append(tasks, NewTask("scp", ch, "run", 0))
              /\ Log(ch, r, "ok")
              /\ UNCHANGED <<crashed, dpc, dn>>
         [] OTHER ->
              /\ systems' = IF sys = 0 THEN Append(systems, NewSystem(DefaultSize)) ELSE systems
              /\ dn' = [dn EXCEPT ![ch] = ExecCode(r)]
              /\ dpc' = [dpc EXCEPT ![ch] = "send"]
              /\ Log(ch, r, "pending")
              /\ UNCHANGED <<crashed, tasks>>
    /\ UNCHANGED <<sh, sys>>

\* "case req := <-in" with a request r: the switch on req.Type
Dispatch(ch, r) ==
    /\ ~crashed /\ dpc[ch] = "select" /\ ~inClosed[ch] /\ nreqs < MaxReqs
    /\ nreqs' = nreqs + 1
    /\ CASE r \in {"pty-req", "pty-req:bad"} -> PtyRequest(ch, r)
         [] r \in {"env", "env:bad"} -> EnvRequest(ch, r)
         [] r = "shell" -> ShellRequest(ch, r)
         [] r \in {"subsystem:sftp", "subsystem:other", "subsystem:short"} -> SubsystemRequest(ch, r)
         [] r \in {"window-change", "window-change:bad"} -> WindowChangeRequest(ch, r)
         [] r \in {"exec:ls", "exec:frob", "exec:scp", "exec:short"} -> ExecRequest(ch, r)
         [] OTHER -> /\ Log(ch, r, "none")
                     /\ UNCHANGED <<crashed, dpc, dn, sh, tasks, sys, systems>>
    /\ UNCHANGED <<cfg, connVars, workVars, authVars, spc, connClosed, sshChan, nchans, opens, chType, answers, dials, fwdpc,
                   inClosed, quitSignal, exit, quitWrites>>

\* "quitSignal <- n" of the exec case, which waits for room in the channel,
\* and the Reply(true) after it
DispatcherSend(ch) ==
    /\ ~crashed /\ dpc[ch] = "send" /\ Len(quitSignal[ch]) < 1
    /\ quitSignal' = [quitSignal EXCEPT ![ch] = Append(@, dn[ch])]
    /\ quitWrites' = [quitWrites EXCEPT ![ch] = @ + 1]
    /\ reqlog' = [reqlog EXCEPT ![ch][Len(reqlog[ch])].reply = "ok"]
    /\ dpc' = [dpc EXCEPT ![ch] = "select"]
    /\ UNCHANGED <<cfg, crashed, connVars, workVars, authVars, sessVars, inClosed, sh, dn, nreqs, exit, tasks>>

\* closeChannel: binary.BigEndian.PutUint32(b, uint32(signal)), the four
\* bytes of the exit-status payload
ExitStatus(signal) ==
    <<(signal \div 16777216) % 256, (signal \div 65536) % 256, (signal \div 256) % 256, signal % 256>>

\* "case ret := <-quitSignal": closeChannel(channel, ret) and return
DispatcherQuit(ch) ==
    /\ ~crashed /\ dpc[ch] = "select" /\ quitSignal[ch] # <<>>
    /\ quitSignal' = [quitSignal EXCEPT ![ch] = Tail(@)]
    /\ exit' = [exit EXCEPT ![ch] = Append(@, ExitStatus(Head(quitSignal[ch])))]
    /\ dpc' = [dpc EXCEPT ![ch] = "closed"]
    /\ inClosed' = [inClosed EXCEPT ![ch] = TRUE]
    /\ UNCHANGED <<cfg, crashed, connVars, workVars, authVars, sessVars, sh, dn, reqlog, nreqs, quitWrites, tasks>>

\* "case req := <-in" on the ended request stream: req == nil, return
DispatcherStreamEnd(ch) ==
    /\ ~crashed /\ dpc[ch] = "select" /\ inClosed[ch]
    /\ dpc' = [dpc EXCEPT ![ch] = "returned"]
    /\ UNCHANGED <<cfg, crashed, connVars, workVars, authVars, sessVars, inClosed, quitSignal, sh, dn, reqlog, nreqs,
                   exit, quitWrites, tasks>>

(***************************************************************************)
(* The leaf services: Shell.HandleRequest, and the sftp and scp services.  *)
(***************************************************************************)
\* the lines a peer types; "ls" is a registered command, "panic" a registered
\* command whose Exec panics
Lines == {"logout", "quit", "", "ls", "panic"}

\* the same with "frob", a name that funcMap does not hold, and two cd lines
ShellLines == Lines \cup {"frob", "cd /nonexistent", "cd /tmp"}

\* what ReadLine returns once the stream has ended or failed
ReadErrors == {"EOF", "ERR"}

\* sh.sys.Chdir(path): the new working directory, and whether it failed
Chdir(cwd, path) ==
    IF path = "/tmp" THEN [cwd |-> "/tmp", err |-> FALSE] ELSE [cwd |-> cwd, err |-> TRUE]

\* sh.Exec(args[0], args[1:]): whether funcMap holds the command
Registered(l) == l \in {"ls", "panic"}

NotFound == "command not found"
NoSuchFile == "No such file or directory"

\* sh.terminal = terminal.NewTerminal(...)
ShellStart(t) ==
    /\ ~crashed /\ t \in 1..Len(tasks)
    /\ tasks[t].kind = "shell" /\ tasks[t].pc = "start"
    /\ tasks' = [tasks EXCEPT ![t].pc = "read"]
    /\ UNCHANGED <<cfg, crashed, connVars, workVars, authVars, sessVars, dpc, inClosed, quitSignal, sh, dn, reqlog,
                   nreqs, exit, quitWrites>>

AfterLineLogoutFails(l) ==
    CASE l \in {"quit", "EOF"} -> [pc |-> "send", code |-> 0]
      [] l \in {"panic", "logout"} -> [pc |-> "send", code |-> 1]
      [] l = "ERR" -> [pc |-> "done", code |-> 0]
      [] OTHER -> [pc |-> "read", code |-> 0]

AfterLineNotFoundEnds(l) ==
    CASE l \in {"logout", "quit", "EOF"} -> [pc |-> "send", code |-> 0]
      [] l \in {"panic", "frob"} -> [pc |-> "send", code |-> 1]
      [] l = "ERR" -> [pc |-> "done", code |-> 0]
      [] OTHER -> [pc |-> "read", code |-> 0]

\* what one ReadLine leads to: pc and code after it
AfterLine(l) ==
    CASE l \in {"logout", "quit", "EOF"} -> [pc |-> "send", code |-> 0]
      [] l = "panic" -> [pc |-> "send", code |-> 1]
      [] l = "ERR" -> [pc |-> "done", code |-> 0]
      [] OTHER -> [pc |-> "read", code |-> 0]

\* string(n) of the exit code 0 of a command
CodeString == "U+0000"

\* the cases of the switch that write to the terminal, change directory or
\* set envVars["?"]: the context sy after the line, and the message written
LineEffect(l, sy) ==
    CASE l \in {"cd /nonexistent", "cd /tmp"} ->
            LET path == IF l = "cd /tmp" THEN "/tmp" ELSE "/nonexistent"
            IN  [sys |-> [sy EXCEPT !.cwd = Chdir(sy.cwd, path).cwd],
                 out |-> IF Chdir(sy.cwd, path).err THEN NoSuchFile ELSE ""]
      [] l \in {"frob", "ls"} ->
            IF Registered(l) THEN [sys |-> [sy EXCEPT !.env = SetEnv(@, "?", CodeString)], out |-> ""]
                             ELSE [sys |-> sy, out |-> NotFound]
      [] OTHER -> [sys |-> sy, out |-> ""]

\* one turn of cmdLoop: a line while the channel is open, EOF once it has
\* closed, or another read error once the transport has failed
ShellReadLine(t, l) ==
    /\ ~crashed /\ t \in 1..Len(tasks)
    /\ tasks[t].kind = "shell" /\ tasks[t].pc = "read"
    /\ l \in IF ~inClosed[tasks[t].ch] THEN ShellLines
              ELSE IF connClosed THEN ReadErrors ELSE {"EOF"}
    /\ tasks' = [tasks EXCEPT ![t].pc = AfterLine(l).pc, ![t].code = AfterLine(l).code,
                              ![t].last = IF AfterLine(l).pc = "read" THEN @ ELSE l,
                              ![t].out = LineEffect(l, systems[tasks[t].sys]).out]
    /\ systems' = [systems EXCEPT ![tasks[t].sys] = LineEffect(l, @).sys]
    /\ UNCHANGED <<cfg, crashed, connVars, workVars, authVars, spc, connClosed, sshChan, nchans, opens, chType, answers,
                   dials, fwdpc, sys, dpc, inClosed, quitSignal, sh, dn, reqlog, nreqs, exit, quitWrites>>

\* the sftp and scp services end and report one exit code
ServiceEnds(t) ==
    /\ ~crashed /\ t \in 1..Len(tasks)
    /\ tasks[t].kind \in {"sftp", "scp"} /\ tasks[t].pc = "run"
    /\ \E c \in {0, 1} : tasks' = [tasks EXCEPT ![t].pc = "send", ![t].code = c]
    /\ UNCHANGED <<cfg, crashed, connVars, workVars, authVars, sessVars, dpc, inClosed, quitSignal, sh, dn, reqlog,
                   nreqs, exit, quitWrites>>

\* "sh.termSignal <- code" (quitSignal <- code in the services), which waits
\* for room in the channel
TaskSend(t) ==
    /\ ~crashed /\ t \in 1..Len(tasks)
    /\ tasks[t].pc = "send" /\ Len(quitSignal[tasks[t].ch]) < 1
    /\ quitSignal' = [quitSignal EXCEPT ![tasks[t].ch] = Append(@, tasks[t].code)]
    /\ quitWrites' = [quitWrites EXCEPT ![tasks[t].ch] = @ + 1]
    /\ tasks' = [tasks EXCEPT ![t].pc = "done", ![t].writes = @ + 1]
    /\ UNCHANGED <<cfg, crashed, connVars, workVars, authVars, sessVars, dpc, inClosed, sh, dn, reqlog, nreqs, exit>>

(***************************************************************************)
(* Start-up and the specification of the connection layer: the accept loop *)
(* and the worker pool, the session seen as HandleNewConnReturns.          *)
(***************************************************************************)
Configs ==
    [maxConnections : {1, 2}, maxConnPerHost : 1..MaxPerHost, maxTries : 1..MaxTries,
     allowRetryLogin : BOOLEAN, allowRandomUser : BOOLEAN,
     portRedirection : {"disable", "map", "direct", ""}]

InitState(c, n, m) ==
    /\ cfg = c
    /\ crashed = FALSE
    /\ ipConnCnt = [ip \in IPs |-> 0]
    /\ underflow = FALSE
    /\ lpc = "accept" /\ lconn = NoConn /\ lcnt = 0
    /\ nconns = 0 /\ sockets = n
    /\ preCnt = [k \in Conns |-> 0]
    /\ cip = [k \in Conns |-> "ip1"]
    /\ cstate = [k \in Conns |-> "none"]
    /\ decs = [k \in Conns |-> 0]
    /\ hs = [k \in Conns |-> "none"]
    /\ wpc = [w \in Workers |-> IF w = "w1" \/ c.maxConnections = 2 THEN "recv" ELSE "off"]
    /\ wconn = [w \in Workers |-> NoConn]
    /\ wcb = [w \in Workers |-> 0]
    /\ authFailures = [w \in Workers |-> 0]
    /\ tlRead = [w \in Workers |-> 0]
    /\ attempts = [w \in Workers |-> 0]
    /\ dattempts = [w \in Workers |-> 0]
    /\ last = [w \in Workers |-> NoAttempt]
    /\ cfgCb = 0
    /\ triesLeft = <<>>
    /\ cbUsers = <<>>
    /\ spc = "none"
    /\ connClosed = FALSE
    /\ sshChan = <<>>
    /\ nchans = 0 /\ opens = m
    /\ chType = [ch \in Chans |-> NoOpen]
    /\ answers = [ch \in Chans |-> <<>>]
    /\ dials = [ch \in Chans |-> 0]
    /\ fwdpc = [ch \in Chans |-> "none"]
    /\ sys = 0
    /\ systems = <<>>
    /\ dpc = [ch \in Chans |-> "none"]
    /\ inClosed = [ch \in Chans |-> FALSE]
    /\ quitSignal = [ch \in Chans |-> <<>>]
    /\ sh = [ch \in Chans |-> 0]
    /\ dn = [ch \in Chans |-> 0]
    /\ reqlog = [ch \in Chans |-> <<>>]
    /\ nreqs = 0
    /\ exit = [ch \in Chans |-> <<>>]
    /\ quitWrites = [ch \in Chans |-> 0]
    /\ tasks = <<>>

\* the connection layer: admission and release, with NewSSHSession and
\* handleNewConn seen from the worker
InitConn ==
    \E c \in Configs :
       /\ c.maxConnections = 2 /\ c.maxTries = 1
       /\ ~c.allowRetryLogin /\ ~c.allowRandomUser /\ c.portRedirection = "disable"
       /\ InitState(c, MaxConns, 0)

NextConn ==
    \/ Accept
    \/ AcceptError
    \/ ReadCount
    \/ Admit
    \/ \E w \in Workers : Handoff(w)
    \/ \E w \in Workers : NewSSHSessionReturns(w)
    \/ \E w \in Workers : HandleNewConnReturns(w)
    \/ \E w \in Workers : Release(w)

SpecConn == InitConn /\ [][NextConn]_vars

\* the handshakes, attempt by attempt, of the sockets two workers serve
InitAuth ==
    \E c \in Configs :
       /\ c.maxConnections = 2 /\ c.maxConnPerHost = MaxPerHost /\ c.portRedirection = "disable"
       /\ InitState(c, 2, 0)

NextAuth ==
    \/ Accept
    \/ AcceptError
    \/ ReadCount
    \/ Admit
    \/ \E w \in Workers : Handoff(w)
    \/ \E w \in Workers : SetCallback(w)
    \/ \E w \in Workers : NewServerConn(w)
    \/ \E w \in Workers : PasswordChallenge(w)
    \/ \E w \in Workers : PwDecrement(w)
    \/ \E w \in Workers : HandshakeAbort(w)
    \/ \E w \in Workers : HandleNewConnReturns(w)
    \/ \E w \in Workers : Release(w)

SpecAuth == InitAuth /\ [][NextAuth]_vars

\* one session and its port-forwarding and unknown channel-opens
InitFwd ==
    \E c \in Configs :
       /\ c.maxConnections = 1 /\ c.maxConnPerHost = MaxPerHost /\ c.maxTries = 1
       /\ ~c.allowRetryLogin /\ ~c.allowRandomUser
       /\ InitState(c, 1, MaxChans)

NextFwd ==
    \/ Accept
    \/ AcceptError
    \/ ReadCount
    \/ Admit
    \/ \E w \in Workers : Handoff(w)
    \/ \E w \in Workers : NewSSHSessionReturns(w)
    \/ \E w \in Workers : BeginSession(w)
    \/ \E o \in FwdOpens : ClientOpen(o)
    \/ TransportClose
    \/ HandleChannelOpen
    \/ \E ch \in Chans : Dial(ch)
    \/ \E w \in Workers : EndSession(w)
    \/ \E w \in Workers : Release(w)

SpecFwd == InitFwd /\ [][NextFwd]_vars


\* one session and its session channel, from the socket to the release
InitChan ==
    \E c \in Configs :
       /\ c.maxConnections = 1 /\ c.maxConnPerHost = MaxPerHost /\ c.maxTries = 1
       /\ ~c.allowRetryLogin /\ ~c.allowRandomUser /\ c.portRedirection = "disable"
       /\ InitState(c, 1, 1)

Tasks == 1..MaxReqs

NextChan ==
    \/ Accept
    \/ AcceptError
    \/ ReadCount
    \/ Admit
    \/ \E w \in Workers : Handoff(w)
    \/ \E w \in Workers : NewSSHSessionReturns(w)
    \/ \E w \in Workers : BeginSession(w)
    \/ ClientOpen(SessionOpen)
    \/ TransportClose
    \/ HandleChannelOpen
    \/ \E ch \in Chans : DispatcherAccept(ch)
    \/ \E ch \in Chans : ClientCloseChannel(ch)
    \/ \E ch \in Chans, r \in Requests : Dispatch(ch, r)
    \/ \E ch \in Chans : DispatcherSend(ch)
    \/ \E ch \in Chans : DispatcherQuit(ch)
    \/ \E ch \in Chans : DispatcherStreamEnd(ch)
    \/ \E t \in Tasks : ShellStart(t)
    \/ \E t \in Tasks, l \in Lines \cup ReadErrors : ShellReadLine(t, l)
    \/ \E t \in Tasks : ServiceEnds(t)
    \/ \E t \in Tasks : TaskSend(t)
    \/ \E w \in Workers : EndSession(w)
    \/ \E w \in Workers : Release(w)

SpecChan == InitChan /\ [][NextChan]_vars

\* the goroutines of the server are scheduled, and the transport ends at the
\* latest when the idle timeout of the throttled connection fires; what the
\* peer sends is left to the peer
ChanFairness ==
    /\ WF_vars(ReadCount) /\ WF_vars(Admit)
    /\ \A w \in Workers :
          /\ WF_vars(Handoff(w)) /\ WF_vars(NewSSHSessionReturns(w)) /\ WF_vars(BeginSession(w))
          /\ WF_vars(EndSession(w)) /\ WF_vars(Release(w))
    /\ WF_vars(HandleChannelOpen)
    /\ WF_vars(TransportClose)
    /\ \A ch \in Chans :
          /\ WF_vars(DispatcherAccept(ch)) /\ WF_vars(DispatcherSend(ch))
          /\ WF_vars(DispatcherQuit(ch)) /\ WF_vars(DispatcherStreamEnd(ch))
    /\ \A t \in Tasks : WF_vars(ShellStart(t)) /\ WF_vars(TaskSend(t))

SpecChanFair == SpecChan /\ ChanFairness

(***************************************************************************)
(* The specification of the Shell loop: the session channel of a peer that *)
(* asks for a terminal and a shell, and the lines it types.                *)
(***************************************************************************)
ShellRequests == {"pty-req", "shell"}

NextShell ==
    \/ Accept
    \/ AcceptError
    \/ ReadCount
    \/ Admit
    \/ \E w \in Workers : Handoff(w)
    \/ \E w \in Workers : NewSSHSessionReturns(w)
    \/ \E w \in Workers : BeginSession(w)
    \/ ClientOpen(SessionOpen)
    \/ TransportClose
    \/ HandleChannelOpen
    \/ \E ch \in Chans : DispatcherAccept(ch)
    \/ \E ch \in Chans : ClientCloseChannel(ch)
    \/ \E ch \in Chans, r \in ShellRequests : Dispatch(ch, r)
    \/ \E ch \in Chans : DispatcherQuit(ch)
    \/ \E ch \in Chans : DispatcherStreamEnd(ch)
    \/ \E t \in Tasks : ShellStart(t)
    \/ \E t \in Tasks, l \in ShellLines \cup ReadErrors : ShellReadLine(t, l)
    \/ \E t \in Tasks : TaskSend(t)
    \/ \E w \in Workers : EndSession(w)
    \/ \E w \in Workers : Release(w)

SpecShell == InitChan /\ [][NextShell]_vars

(***************************************************************************)
(* Properties of the connection layer (SpecConn).                          *)
(***************************************************************************)
Live(ip) == {c \in Conns : cip[c] = ip /\ cstate[c] \in {"admitted", "handling"}}

\* C1: in every reachable state, whatever the interleaving of the accept loop
\* (read, compare, increment) with the workers' decrements, the live count of
\* every source IP lies in 0 .. server.maxConnPerHost, and no decrement was
\* ever applied to a count of zero.
C1_CountInRange ==
    /\ \A ip \in IPs : ipConnCnt[ip] >= 0 /\ ipConnCnt[ip] <= cfg.maxConnPerHost
    /\ ~underflow

\* the count is at the maximum, a socket was refused for it and another released
C1_Witness ==
    \E c \in Conns, r \in Conns :
       /\ cstate[c] = "refused" /\ cstate[r] = "released"
       /\ ipConnCnt[cip[c]] = cfg.maxConnPerHost

\* C2: every admitted connection is decremented exactly once, after a
\* successful session and after a failed handshake alike; a refused connection
\* is never decremented; so the count of an IP is the number of its admitted
\* connections not yet released.
C2_OneDecrement ==
    /\ \A c \in Conns :
          /\ decs[c] <= 1
          /\ cstate[c] = "released" => decs[c] = 1 /\ hs[c] \in {"ok", "err"}
          /\ cstate[c] # "released" => decs[c] = 0
    /\ \A ip \in IPs : ipConnCnt[ip] = Cardinality(Live(ip))

\* one connection released after a session, one after a failed handshake, one refused
C2_Witness ==
    \E a \in Conns, b \in Conns, c \in Conns :
       /\ cstate[a] = "released" /\ hs[a] = "ok" /\ decs[a] = 1
       /\ cstate[b] = "released" /\ hs[b] = "err" /\ decs[b] = 1
       /\ cstate[c] = "refused" /\ decs[c] = 0

(***************************************************************************)
(* Properties of the password callback (SpecAuth).                         *)
(***************************************************************************)
Returned(w) == last[w].res \in {"accept", "reject"}

Served(w) == last[w].kind \in {"match", "mismatch"} \/ cfg.allowRandomUser

MatchAttempt(w) == last'[w] # last[w] /\ last'[w].kind = "match"

\* C5: an attempt with a known user's stored credential is accepted on that
\* attempt under every configuration and every counter value, and the call
\* leaves every counter as it was.
C5_ExactMatch ==
    /\ [](\A w \in Workers : last[w].kind = "match" => last[w].res = "accept")
    /\ [][\A w \in Workers : MatchAttempt(w) => triesLeft' = triesLeft]_vars

\* an exact match accepted as second attempt while the counter is above one
C5_Witness ==
    \E w \in Workers :
       /\ cfg.allowRetryLogin /\ last[w].kind = "match" /\ last[w].res = "accept"
       /\ last[w].n = 2 /\ last[w].tl > 1 /\ triesLeft[wcb[w]] = last[w].tl

\* C6: with allowRetryLogin unset, an attempt is accepted at once when the
\* user is known (wrong password or wildcard credential included) or
\* allowRandomUser is set, and rejected when the user is unknown and
\* allowRandomUser is unset.
C6_NoRetryPrecedence ==
    \A w \in Workers :
       (~cfg.allowRetryLogin /\ last[w].kind # "none") =>
          /\ Served(w) => last[w].res = "accept"
          /\ ~Served(w) => last[w].res = "reject"
          /\ last[w].res = "reject" => authFailures[w] = last[w].n

\* a known user's wrong password accepted right after an unknown user's rejection
C6_Witness ==
    \E w \in Workers :
       /\ ~cfg.allowRetryLogin /\ ~cfg.allowRandomUser
       /\ last[w].kind = "mismatch" /\ last[w].res = "accept" /\ last[w].n = 2

(***************************************************************************)
(* Properties of the session-level loop (SpecFwd).                         *)
(***************************************************************************)
Taken(ch) == ch <= nchans /\ \A i \in 1..Len(sshChan) : sshChan[i] # ch

IsReject(a) == a \in {"reject:corrupt", "reject:prohibited", "reject:malformed", "reject:resource",
                      "reject:connfailed", "reject:unknown"}

\* C7: a direct-tcpip channel-open under policy "map" whose port the map does
\* not hold is answered with a rejection, no dial is made for it, and the loop
\* goes on to the next channel-open.
C7_UnmappedRejected ==
    \A ch \in Chans :
       (Taken(ch) /\ chType[ch].kind = "direct-tcpip" /\ ~chType[ch].corrupt
          /\ cfg.portRedirection = "map" /\ chType[ch].port \notin PortMap) =>
          /\ answers[ch] # <<>> /\ \A i \in 1..Len(answers[ch]) : IsReject(answers[ch][i])
          /\ dials[ch] = 0
          /\ fwdpc[ch] = "handled"

(***************************************************************************)
(* Properties of the channel dispatcher (SpecChan, SpecChanFair).          *)
(***************************************************************************)
TerminalMode(r) ==
    r \in {"shell", "subsystem:sftp", "subsystem:other", "subsystem:short",
           "exec:ls", "exec:frob", "exec:scp", "exec:short"}

TasksOn(ch) == {t \in 1..Len(tasks) : tasks[t].ch = ch}

ShellsOn(ch) == {t \in TasksOn(ch) : tasks[t].kind = "shell"}

\* C3: once a shell, exec or subsystem request was granted on a channel, every
\* later shell, exec or subsystem request on it is answered with failure and
\* starts no leaf service: at most one leaf service, and one Shell, per channel.
C3_OneTerminalMode ==
    \A ch \in Chans :
       /\ \A i \in 1..Len(reqlog[ch]), j \in 1..Len(reqlog[ch]) :
             (i < j /\ TerminalMode(reqlog[ch][i].req) /\ reqlog[ch][i].reply = "ok"
                /\ TerminalMode(reqlog[ch][j].req)) => reqlog[ch][j].reply = "fail"
       /\ Cardinality(TasksOn(ch)) <= 1
       /\ Cardinality(ShellsOn(ch)) <= 1

\* C8: the quitSignal of a channel is written at most once in the channel's
\* lifetime, whatever the requests and the interleaving with the leaf services.
C8_QuitWrittenOnce == \A ch \in Chans : quitWrites[ch] <= 1

\* C9: the dispatcher is never stuck on a quitSignal operation that nobody can
\* unblock: only the dispatcher's own select receives from quitSignal, so its
\* send into the full channel can never complete.
C9_DispatcherNotStuck == \A ch \in Chans : ~(dpc[ch] = "send" /\ Len(quitSignal[ch]) = 1)

\* the scenario of C10 on channel ch: pty-req then shell, both taken, and the
\* Shell has read the line "logout"
LogoutScenario(ch) ==
    /\ Len(reqlog[ch]) = 2
    /\ reqlog[ch][1].req = "pty-req" /\ reqlog[ch][2].req = "shell"
    /\ \E t \in ShellsOn(ch) : tasks[t].last = "logout"

\* the peer left the scenario: a further request, or the request stream ended
\* before the dispatcher took the quit code
LeftScenario(ch) == Len(reqlog[ch]) > 2 \/ dpc[ch] = "returned"

ClosedWithZero(ch) == dpc[ch] = "closed" /\ exit[ch] = <<ExitStatus(0)>>

CountRestored(c) == cstate[c] = "released" /\ ipConnCnt[cip[c]] = preCnt[c]

\* C10: a well-formed pty-req and a shell request are both answered with
\* success; when they are the channel's requests and the Shell has read
\* "logout", the channel eventually gets exit-status 0 and is closed (unless the
\* peer leaves the scenario first), and the count of the source IP eventually
\* is again what the admission test of the connection read.
C10_EndToEnd ==
    /\ [](\A ch \in Chans : \A i \in 1..Len(reqlog[ch]) :
             reqlog[ch][i].req \in {"pty-req", "shell"} => reqlog[ch][i].reply = "ok")
    /\ \A ch \in Chans : LogoutScenario(ch) ~> (ClosedWithZero(ch) \/ LeftScenario(ch))
    /\ \A ch \in Chans : LogoutScenario(ch) ~> (CountRestored(1) \/ crashed)

\* the scenario has run to its end: exit-status 0, channel closed, count restored
C10_Witness ==
    \E ch \in Chans :
       /\ LogoutScenario(ch) /\ ClosedWithZero(ch)
       /\ CountRestored(1) /\ hs[1] = "ok"
       /\ systems = <<NewSystem(PtySize)>>

(***************************************************************************)
(* Properties of the Shell loop (SpecShell).                               *)
(***************************************************************************)
IsShell(t) == t \in 1..Len(tasks) /\ tasks[t].kind = "shell"

\* the step is a turn of the loop of Shell t that wrote msg to the terminal
ShellWrote(t, msg) ==
    /\ IsShell(t) /\ tasks[t].pc = "read"
    /\ tasks'[t] # tasks[t] /\ tasks'[t].out = msg

Ended(ch) == dpc[ch] \in {"returned", "closed"}

\* C12: the dispatcher's loop ends the first time the request stream ends or
\* a quit code is received, and in both cases it has sent one exit-status
\* request and closed the channel when its goroutine ends.
C12_ExitOnEveryEnd == \A ch \in Chans : Ended(ch) => Len(exit[ch]) = 1

Malformed(r) == r \in {"pty-req:bad", "env:bad", "window-change:bad", "exec:short", "subsystem:short"}

\* C13: a pty-req, env, window-change, exec or subsystem request whose payload
\* is malformed or too short is answered with failure, starts no leaf service
\* and leaves the dispatcher running.
C13_MalformedRefused ==
    \A ch \in Chans : \A i \in 1..Len(reqlog[ch]) :
       Malformed(reqlog[ch][i].req) =>
          /\ reqlog[ch][i].reply = "fail"
          /\ i = Len(reqlog[ch]) => ~crashed

\* the last request the dispatcher of ch took panics in the dispatcher:
\* req.Payload[4:] on a payload shorter than four bytes
DispatcherPanicked(ch) ==
    /\ reqlog[ch] # <<>>
    /\ reqlog[ch][Len(reqlog[ch])].req \in {"exec:short", "subsystem:short"}

\* C14: a panic in the dispatcher of a channel, or in its leaf service, is
\* recovered: the process goes on, so that the channel can get its exit-status
\* and every other channel and session keeps running.
C14_PanicRecovered ==
    /\ \A ch \in Chans : DispatcherPanicked(ch) => ~crashed
    /\ \A t \in Tasks : (IsShell(t) /\ tasks[t].last = "panic") => (~crashed /\ tasks[t].code = 1)

\* C15: a session creates at most one context in its lifetime; every later
\* pty-req, shell or exec request reuses it.
C15_OneContext == Len(systems) <= 1

\* the name and the value that the well-formed env request carries
EnvName == "LANG"
EnvValue == "C"

\* C16: every well-formed env request is answered with success and its
\* name/value pair is then held by the environment mapping of the session's
\* context, once there is one.
C16_EnvRecorded ==
    \A ch \in Chans : \A i \in 1..Len(reqlog[ch]) :
       reqlog[ch][i].req = "env" =>
          /\ reqlog[ch][i].reply = "ok"
          /\ sys # 0 => <<EnvName, EnvValue>> \in systems[sys].env

\* C17: a Shell whose loop has ended has written exactly one code to the
\* quitSignal, however the loop ended.
C17_ShellSignalsOnce ==
    \A t \in Tasks : (IsShell(t) /\ tasks[t].pc = "done") => tasks[t].writes = 1

\* the last request the dispatcher of ch took is a window-change
LastIsWindowChange(ch) ==
    /\ reqlog[ch] # <<>>
    /\ reqlog[ch][Len(reqlog[ch])].req \in {"window-change", "window-change:bad"}

\* C20: a window-change changes the dimensions only with a Shell running and
\* a payload that parses, and then to the requested values; otherwise width
\* and height stay as they were, and in no case does it stop the dispatcher.
C20_WindowChange ==
    \A ch \in Chans :
       LastIsWindowChange(ch) =>
          /\ ~crashed
          /\ \A i \in 1..Len(systems) :
                /\ <<systems[i].w, systems[i].h>> # <<ZeroSize.w, ZeroSize.h>>
                /\ <<systems[i].w, systems[i].h>> = <<WinSize.w, WinSize.h>> =>
                      \E j \in 1..Len(reqlog[ch]) : reqlog[ch][j].req = "window-change"

(***************************************************************************)
(* Further properties of the password callback (SpecAuth).                 *)
(***************************************************************************)
\* C18: the remaining-tries counter is per negotiation: no two negotiations
\* take the same closure, and with it the same triesLeft, as their callback.
C18_CounterPerNegotiation == \A k \in 1..Len(cbUsers) : cbUsers[k] <= 1

(***************************************************************************)
(* Further properties of the session-level loop (SpecFwd).                 *)
(***************************************************************************)
\* what reaches the peer of the Accept and Reject calls made on one
\* channel-open event: the first call decides, and ssh.NewChannel refuses
\* every later one
Wire(calls) == IF calls = <<>> THEN <<>> ELSE <<calls[1]>>

\* C19: every channel-open event the loop has taken is answered exactly once,
\* with an accept or a reject, on all paths of the loop; an Accept that fails
\* because the transport has gone leaves no peer to answer.
C19_AnsweredOnce ==
    \A ch \in Chans :
       (Taken(ch) /\ chType[ch].kind # "session") =>
          /\ Len(Wire(answers[ch])) = 1
          /\ Wire(answers[ch])[1] \in {"accept", "accept:err"} \/ IsReject(Wire(answers[ch])[1])

====
